---- MODULE Spec2Model ----
(***************************************************************************)
(* A model of rust/src/lib.rs of convex_flutter: the MobileConvexClient    *)
(* with its lazily initialised session (an async_once_cell OnceCell), the  *)
(* subscription tasks with their cancellation handles, and the token       *)
(* refresh loop of set_auth_with_refresh.                                   *)
(*                                                                         *)
(* The specifications share the variables:                                 *)
(*   SpecConn     callers of connected_client() on a fresh client;          *)
(*   SpecSub      one subscription;                                         *)
(*   SpecSubs     two subscriptions side by side;                           *)
(*   SpecAuth     one refresh loop;                                         *)
(*   SpecHandles  one subscription and one refresh loop;                    *)
(*   SpecAuthFair one refresh loop under fair scheduling;                   *)
(*   SpecRelay    the state relay of an established session;                *)
(*   SpecWire     two callers, the listener's registration and the relay;   *)
(*   SpecCall     one query, mutation or action on a fresh client;          *)
(*   SpecSubFair  one subscription with an always-ready stream, fair.       *)
(* SpecConn, SpecWire and SpecCall start from a fresh client, the others    *)
(* from a client whose session is established, a state SpecConn reaches.    *)
(***************************************************************************)
EXTENDS Integers, Sequences, FiniteSets, TLC

\* ------------------------------------------------------------------ bounds
NumCallers == 3
MaxRegistrations == 1
MaxUpdates == 2
MaxCancelCalls == 2
MaxFetches == 2
MaxEvents == 11
FewEvents == 2

\* lib.rs 501, 503, 505
REFRESH_BUFFER_SECS == 60
MIN_REFRESH_INTERVAL_SECS == 5
DEFAULT_REFRESH_INTERVAL_SECS == 300
\* lib.rs 257
RelayCapacity == 10

Callers == 1..NumCallers
\* Two subscriptions: each has a task, a stream and a handle of its own.
Subs == {1, 2}
\* FunctionResult's variants (lib.rs 384-400)
UpdateKinds == {"Value", "ErrorMessage", "ConvexError"}

VARIABLES
    \* --- MobileConvexClient (lib.rs 202-209)
    state_change_sender, \* 0: None; k > 0: the sender of the k-th registered channel
    client,              \* the OnceCell: 0 uninitialised; k > 0: the session built by attempt k
    \* --- callers of connected_client()
    callerPc,            \* where each caller is in connected_client()
    state_sender,        \* the sender each caller cloned at line 292
    joined,              \* the attempt in progress (or started) when the caller reached the cell; 0: none
    result,              \* what connected_client() returned to each caller
    attempts,            \* the number of builder.build() calls started
    attemptSink          \* the sink installed on the builder of each attempt

connVars == <<state_change_sender, client, callerPc, state_sender, joined, result,
              attempts, attemptSink>>

VARIABLES
    \* --- the collaborator's session
    sessionAuth,         \* the token the session holds (ConvexClient::set_auth); NoToken: none
    \* --- one subscription: collaborator stream, task, handle (lib.rs 126-145, 359-410)
    subPc,               \* "none", "failed" (subscribe returned Err), "active", "terminated"
    stream,              \* the updates the stream holds ready, oldest first
    streamEnded,         \* the stream has ended: next() yields None once drained
    sub_cancel_sender,   \* SubscriptionHandle.cancel_sender: "none" (no handle), "some", "taken", "dropped"
    subChan,             \* the oneshot channel: "open", "sent", "closed" (sender dropped unsent)
    delivered,           \* the subscriber calls the task made, in order
    exit,                \* how the task left its loop: "none", "cancel", "end"
    cancelLog,           \* the outcome of each cancel() call on the handle, in order
    producedAtCancel,    \* updates the stream had produced when cancel() sent the signal; -1: not sent
    cbRunning            \* the number of spawned callback futures that have not completed

subVars == <<subPc, stream, streamEnded, sub_cancel_sender, subChan, delivered,
             exit, cancelLog, producedAtCancel, cbRunning>>

VARIABLES
    \* --- the refresh loop of set_auth_with_refresh and its AuthHandle (lib.rs 150-176, 486-617)
    authPc,              \* "none", "spawned", "fetching", "applying", "sleeping", "clearing", "notifying", "done"
    authExit,            \* why the loop left: "none", "cancel_fetch", "cancel_sleep", "no_token"
    fetchResult,         \* the fetch_token future: Pending, ResolvedNone or ResolvedSome(token)
    fetchCalls,          \* the number of fetch_token() calls the loop made
    token,               \* the token the loop holds; NoToken before the first
    now_secs,            \* the clock reading of lines 533-536
    sleep_duration,      \* the duration of the sleep the loop scheduled; 0 before the first
    sleepFired,          \* the timer of the current sleep has elapsed
    was_authenticated,   \* the loop's local flag
    is_authenticated,    \* the AtomicBool shared with the handle
    auth_cancel_sender,  \* AuthHandle.cancel_sender: "none" (no handle), "some", "taken", "dropped"
    authChan,            \* the oneshot channel: "open", "sent", "closed"
    authChangeLog,       \* the arguments of the on_auth_change calls, in order
    disposeLog,          \* the outcome of each dispose() call on the handle, in order
    fetchCallsAtDispose  \* fetch_token() calls the loop had made when dispose() sent the signal; -1: not sent

authVars == <<authPc, authExit, fetchResult, fetchCalls, token, now_secs, sleep_duration,
              sleepFired, was_authenticated, is_authenticated, auth_cancel_sender, authChan,
              authChangeLog, disposeLog, fetchCallsAtDispose>>

VARIABLES
    \* --- the state relay: the channel whose sender the session holds and its
    \* forwarding task (lib.rs 256-283)
    emitted,             \* the state events the session's collaborator has emitted, in order
    relayQueue,          \* the events in the mpsc channel, oldest first
    relayPc,             \* the forwarding task: "waiting" in recv(), "calling" in future.await
    relayCalls,          \* the arguments of the on_state_change calls, in order
    relayRunning         \* the number of on_state_change futures that have not completed

relayVars == <<emitted, relayQueue, relayPc, relayCalls, relayRunning>>

VARIABLES
    \* --- query, mutation, action: the operation each caller runs (lib.rs 328-338, 414-459)
    callPc,              \* "none", "connecting", "invoking", "returned", "aborted"
    callKind,            \* "query", "mutation", "action"; "none" before the call
    callArgs,            \* the argument map the caller passed
    callOutcome,         \* what the collaborator's operation returned
    callResult           \* what the operation returned to the caller

callVars == <<callPc, callKind, callArgs, callOutcome, callResult>>

vars == <<connVars, sessionAuth, subVars, authVars, relayVars, callVars>>

NoResult == [kind |-> "none", attempt |-> 0]
OkResult(k) == [kind |-> "ok", attempt |-> k]
ErrResult(k) == [kind |-> "err", attempt |-> k]

\* ---------------------------------------------------- connected_client()

Building == {c \in Callers : callerPc[c] = "building"}

\* MobileConvexClient::new: an empty cell and no registered sender.
InitConn ==
    /\ state_change_sender = 0
    /\ client = 0
    /\ callerPc = [c \in Callers |-> "idle"]
    /\ state_sender = [c \in Callers |-> 0]
    /\ joined = [c \in Callers |-> 0]
    /\ result = [c \in Callers |-> NoResult]
    /\ attempts = 0
    /\ attemptSink = <<>>

\* on_websocket_state_change: a new channel, its sender stored in the client.
OnWebsocketStateChange ==
    /\ state_change_sender < MaxRegistrations
    /\ state_change_sender' = state_change_sender + 1
    /\ UNCHANGED <<client, callerPc, state_sender, joined, result, attempts, attemptSink>>

\* connected_client(), lines 291-292: the caller clones the stored sender.
ConnectedClientEnter(c) ==
    /\ callerPc[c] = "idle"
    /\ callerPc' = [callerPc EXCEPT ![c] = "entered"]
    /\ state_sender' = [state_sender EXCEPT ![c] = state_change_sender]
    /\ UNCHANGED <<state_change_sender, client, joined, result, attempts, attemptSink>>

\* A plausible bug: the builder is not given the sender.
StartBuildNoSink(c) ==
    /\ callerPc' = [callerPc EXCEPT ![c] = "building"]
    /\ attempts' = attempts + 1
    /\ attemptSink' = Append(attemptSink, 0)
    /\ joined' = [joined EXCEPT ![c] = attempts + 1]

\* The init future of caller c starts: the builder gets the caller's sender
\* and builder.build() is called (lines 298-315).
StartBuild(c) ==
    /\ callerPc' = [callerPc EXCEPT ![c] = "building"]
    /\ attempts' = attempts + 1
    /\ attemptSink' = Append(attemptSink, state_sender[c])
    /\ joined' = [joined EXCEPT ![c] = attempts + 1]

\* A plausible bug: no coalescing, every caller that finds the cell empty builds.
GetOrTryInitNoCoalesce(c) ==
    /\ callerPc[c] = "entered"
    /\ IF client # 0
         THEN /\ callerPc' = [callerPc EXCEPT ![c] = "returned"]
              /\ result' = [result EXCEPT ![c] = OkResult(client)]
              /\ UNCHANGED <<attempts, attemptSink, joined>>
         ELSE /\ StartBuild(c)
              /\ UNCHANGED result
    /\ UNCHANGED <<state_change_sender, client, state_sender>>

\* A plausible bug: the cell is not consulted, a caller builds whenever nobody is building.
GetOrTryInitNoFastPath(c) ==
    /\ callerPc[c] = "entered"
    /\ IF Building = {}
         THEN /\ StartBuild(c)
              /\ UNCHANGED result
         ELSE /\ callerPc' = [callerPc EXCEPT ![c] = "queued"]
              /\ joined' = [joined EXCEPT ![c] = attempts]
              /\ UNCHANGED <<result, attempts, attemptSink>>
    /\ UNCHANGED <<state_change_sender, client, state_sender>>

\* OnceCell::get_or_try_init (line 296-297): a ready cell returns its value;
\* an empty cell with no initialiser running runs this caller's init future;
\* otherwise the caller waits in the cell's queue.
GetOrTryInit(c) ==
    /\ callerPc[c] = "entered"
    /\ IF client # 0
         THEN /\ callerPc' = [callerPc EXCEPT ![c] = "returned"]
              /\ result' = [result EXCEPT ![c] = OkResult(client)]
              /\ UNCHANGED <<attempts, attemptSink, joined>>
         ELSE IF Building = {}
           THEN /\ StartBuild(c)
                /\ UNCHANGED result
           ELSE /\ callerPc' = [callerPc EXCEPT ![c] = "queued"]
                /\ joined' = [joined EXCEPT ![c] = attempts]
                /\ UNCHANGED <<result, attempts, attemptSink>>
    /\ UNCHANGED <<state_change_sender, client, state_sender>>

\* builder.build() returns Ok: the cell is set, the caller gets a clone (315-323).
BuildOk(c) ==
    /\ callerPc[c] = "building"
    /\ client' = attempts
    /\ callerPc' = [callerPc EXCEPT ![c] = "returned"]
    /\ result' = [result EXCEPT ![c] = OkResult(attempts)]
    /\ UNCHANGED <<state_change_sender, state_sender, joined, attempts, attemptSink>>

\* builder.build() returns Err: get_or_try_init hands the error to the caller
\* that ran the future and leaves the cell empty.
BuildErr(c) ==
    /\ callerPc[c] = "building"
    /\ callerPc' = [callerPc EXCEPT ![c] = "returned"]
    /\ result' = [result EXCEPT ![c] = ErrResult(attempts)]
    /\ UNCHANGED <<state_change_sender, client, state_sender, joined, attempts, attemptSink>>

\* A queued caller is woken with the cell ready: it returns the cell's value.
QueueObserveReady(c) ==
    /\ callerPc[c] = "queued"
    /\ client # 0
    /\ callerPc' = [callerPc EXCEPT ![c] = "returned"]
    /\ result' = [result EXCEPT ![c] = OkResult(client)]
    /\ UNCHANGED <<state_change_sender, client, state_sender, joined, attempts, attemptSink>>

\* A queued caller is woken with the cell still empty (the initialiser failed):
\* it becomes the initialiser and runs its own init future.
QueueTakeOver(c) ==
    /\ callerPc[c] = "queued"
    /\ client = 0
    /\ Building = {}
    /\ callerPc' = [callerPc EXCEPT ![c] = "building"]
    /\ attempts' = attempts + 1
    /\ attemptSink' = Append(attemptSink, state_sender[c])
    /\ UNCHANGED <<state_change_sender, client, state_sender, joined, result>>

NextConn ==
    \/ OnWebsocketStateChange /\ UNCHANGED <<sessionAuth, subVars, authVars, relayVars, callVars>>
    \/ \E c \in Callers : ConnectedClientEnter(c) /\ UNCHANGED <<sessionAuth, subVars, authVars, relayVars, callVars>>
    \/ \E c \in Callers : GetOrTryInit(c) /\ UNCHANGED <<sessionAuth, subVars, authVars, relayVars, callVars>>
    \/ \E c \in Callers : BuildOk(c) /\ UNCHANGED <<sessionAuth, subVars, authVars, relayVars, callVars>>
    \/ \E c \in Callers : BuildErr(c) /\ UNCHANGED <<sessionAuth, subVars, authVars, relayVars, callVars>>
    \/ \E c \in Callers : QueueObserveReady(c) /\ UNCHANGED <<sessionAuth, subVars, authVars, relayVars, callVars>>
    \/ \E c \in Callers : QueueTakeOver(c) /\ UNCHANGED <<sessionAuth, subVars, authVars, relayVars, callVars>>

\* ------------------------------------------------------- subscriptions

\* The fields of a fresh client's collaborators that no operation has touched.
InitSubIdle ==
    /\ subPc = [s \in Subs |-> "none"]
    /\ stream = [s \in Subs |-> <<>>]
    /\ streamEnded = [s \in Subs |-> FALSE]
    /\ sub_cancel_sender = [s \in Subs |-> "none"]
    /\ subChan = [s \in Subs |-> "open"]
    /\ delivered = [s \in Subs |-> <<>>]
    /\ exit = [s \in Subs |-> "none"]
    /\ cancelLog = [s \in Subs |-> <<>>]
    /\ producedAtCancel = [s \in Subs |-> -1]
    /\ cbRunning = [s \in Subs |-> 0]

\* A client whose first caller of connected_client() got the session of attempt 1.
InitConnected ==
    /\ state_change_sender = 0
    /\ client = 1
    /\ callerPc = [c \in Callers |-> IF c = 1 THEN "returned" ELSE "idle"]
    /\ state_sender = [c \in Callers |-> 0]
    /\ joined = [c \in Callers |-> IF c = 1 THEN 1 ELSE 0]
    /\ result = [c \in Callers |-> IF c = 1 THEN OkResult(1) ELSE NoResult]
    /\ attempts = 1
    /\ attemptSink = <<0>>

\* A plausible bug: the payload of a structured error is not passed on.
CallbackOfNoPayload(kind) ==
    CASE kind = "Value" -> [cb |-> "on_update", value |-> "some"]
      [] kind = "ErrorMessage" -> [cb |-> "on_error", value |-> "none"]
      [] kind = "ConvexError" -> [cb |-> "on_error", value |-> "none"]

\* The subscriber call the task makes for an update (lines 384-400):
\* on_update(json), on_error(message, None), on_error(message, Some(json)).
CallbackOf(kind) ==
    CASE kind = "Value" -> [cb |-> "on_update", value |-> "some"]
      [] kind = "ErrorMessage" -> [cb |-> "on_error", value |-> "none"]
      [] kind = "ConvexError" -> [cb |-> "on_error", value |-> "some"]

\* The oneshot receiver resolves: Ok(()) after send, Err(Canceled) after the
\* sender was dropped; `_ = cancel_fut` matches both (line 402).
CancelReady(s) == subChan[s] \in {"sent", "closed"}

Produced(s) == Len(delivered[s]) + Len(stream[s])

\* The log of calls with one more call, the oldest forgotten when the log is full.
Logged(log, call) ==
    IF Len(log) < MaxUpdates THEN Append(log, call) ELSE Append(Tail(log), call)

\* internal_subscribe, lines 365-409, with the session ready: the collaborator
\* accepts the subscription, the task is spawned, the handle is returned.
Subscribe(s) ==
    /\ client # 0
    /\ subPc[s] = "none"
    /\ subPc' = [subPc EXCEPT ![s] = "active"]
    /\ sub_cancel_sender' = [sub_cancel_sender EXCEPT ![s] = "some"]
    /\ UNCHANGED <<stream, streamEnded, subChan, delivered, exit, cancelLog,
                   producedAtCancel, cbRunning>>

\* internal_subscribe, lines 367-369: client.subscribe() returns Err, no task, no handle.
SubscribeErr(s) ==
    /\ client # 0
    /\ subPc[s] = "none"
    /\ subPc' = [subPc EXCEPT ![s] = "failed"]
    /\ UNCHANGED <<stream, streamEnded, sub_cancel_sender, subChan, delivered,
                   exit, cancelLog, producedAtCancel, cbRunning>>

\* The collaborator's stream gets a new update ready.
StreamProduce(s, kind) ==
    /\ subPc[s] = "active"
    /\ ~streamEnded[s]
    /\ Produced(s) < MaxUpdates
    /\ stream' = [stream EXCEPT ![s] = Append(@, kind)]
    /\ UNCHANGED <<subPc, streamEnded, sub_cancel_sender, subChan, delivered,
                   exit, cancelLog, producedAtCancel, cbRunning>>

\* The collaborator's stream ends.
StreamEnd(s) ==
    /\ subPc[s] = "active"
    /\ ~streamEnded[s]
    /\ streamEnded' = [streamEnded EXCEPT ![s] = TRUE]
    /\ UNCHANGED <<subPc, stream, sub_cancel_sender, subChan, delivered,
                   exit, cancelLog, producedAtCancel, cbRunning>>

\* The task takes the update at the head of the stream and calls the subscriber,
\* which spawns the callback's future and does not wait for it (lines 184-198, 384-400); the loop goes on.
\* (The model keeps at most MaxUpdates futures in flight and the last MaxUpdates calls.)
DeliverHead(s) ==
    /\ cbRunning[s] < MaxUpdates
    /\ delivered' = [delivered EXCEPT ![s] = Logged(@, CallbackOf(Head(stream[s])))]
    /\ cbRunning' = [cbRunning EXCEPT ![s] = @ + 1]
    /\ stream' = [stream EXCEPT ![s] = Tail(@)]
    /\ UNCHANGED <<subPc, exit>>

\* The task breaks out of its loop and ends, dropping the stream and the receiver.
LeaveLoop(s, how) ==
    /\ subPc' = [subPc EXCEPT ![s] = "terminated"]
    /\ exit' = [exit EXCEPT ![s] = how]
    /\ stream' = [stream EXCEPT ![s] = <<>>]
    /\ UNCHANGED <<delivered, cbRunning>>

\* A plausible bug: the branches of the select in the other order.
SubPollCancelFirst(s) ==
    /\ subPc[s] = "active"
    /\ IF CancelReady(s) THEN LeaveLoop(s, "cancel")
       ELSE IF stream[s] # <<>> THEN DeliverHead(s)
       ELSE streamEnded[s] /\ LeaveLoop(s, "end")
    /\ UNCHANGED <<streamEnded, sub_cancel_sender, subChan, cancelLog,
                   producedAtCancel>>

\* A plausible bug: the task stops after delivering an error.
SubPollStopOnError(s) ==
    /\ subPc[s] = "active"
    /\ IF stream[s] # <<>>
         THEN IF Head(stream[s]) = "Value"
                THEN DeliverHead(s)
                ELSE /\ delivered' = [delivered EXCEPT ![s] = Append(@, CallbackOf(Head(stream[s])))]
                     /\ cbRunning' = [cbRunning EXCEPT ![s] = @ + 1]
                     /\ stream' = [stream EXCEPT ![s] = <<>>]
                     /\ subPc' = [subPc EXCEPT ![s] = "terminated"]
                     /\ exit' = [exit EXCEPT ![s] = "end"]
         ELSE IF streamEnded[s] THEN LeaveLoop(s, "end")
         ELSE CancelReady(s) /\ LeaveLoop(s, "cancel")
    /\ UNCHANGED <<streamEnded, sub_cancel_sender, subChan, cancelLog,
                   producedAtCancel>>

\* A plausible bug: the end of the stream is reported through on_error.
SubPollErrorOnEnd(s) ==
    /\ subPc[s] = "active"
    /\ IF stream[s] # <<>> THEN DeliverHead(s)
       ELSE IF streamEnded[s]
         THEN /\ subPc' = [subPc EXCEPT ![s] = "terminated"]
              /\ exit' = [exit EXCEPT ![s] = "end"]
              /\ delivered' = [delivered EXCEPT ![s] = Logged(@, CallbackOf("ErrorMessage"))]
              /\ cbRunning' = [cbRunning EXCEPT ![s] = @ + 1]
              /\ UNCHANGED stream
         ELSE CancelReady(s) /\ LeaveLoop(s, "cancel")
    /\ UNCHANGED <<streamEnded, sub_cancel_sender, subChan, cancelLog,
                   producedAtCancel>>

\* One evaluation of the task's select_biased! (lines 374-406): subscription.next()
\* is polled first, an update is delivered, None breaks; only when next() is
\* pending the cancel future is polled, and a resolved one breaks.
SubPoll(s) ==
    /\ subPc[s] = "active"
    /\ IF stream[s] # <<>> THEN DeliverHead(s)
       ELSE IF streamEnded[s] THEN LeaveLoop(s, "end")
       ELSE CancelReady(s) /\ LeaveLoop(s, "cancel")
    /\ UNCHANGED <<streamEnded, sub_cancel_sender, subChan, cancelLog,
                   producedAtCancel>>

\* A plausible bug: the sender is used without being taken out of the handle.
SubscriptionCancelNoTake(s) ==
    /\ sub_cancel_sender[s] \in {"some", "taken"}
    /\ Len(cancelLog[s]) < MaxCancelCalls
    /\ IF subPc[s] = "active"
         THEN /\ subChan' = [subChan EXCEPT ![s] = "sent"]
              /\ cancelLog' = [cancelLog EXCEPT ![s] = Append(@, "sent")]
         ELSE /\ cancelLog' = [cancelLog EXCEPT ![s] = Append(@, "panic")]
              /\ UNCHANGED subChan
    /\ producedAtCancel' = [producedAtCancel EXCEPT ![s] = Produced(s)]
    /\ UNCHANGED <<subPc, stream, streamEnded, sub_cancel_sender, delivered, exit, cbRunning>>

\* SubscriptionHandle::cancel (lines 140-144), under the handle's mutex: take the
\* sender; if there was one, send and unwrap the result. send() fails when the
\* receiver is gone, and the unwrap then panics.
SubscriptionCancel(s) ==
    /\ sub_cancel_sender[s] \in {"some", "taken"}
    /\ Len(cancelLog[s]) < MaxCancelCalls
    /\ IF sub_cancel_sender[s] = "some"
         THEN /\ sub_cancel_sender' = [sub_cancel_sender EXCEPT ![s] = "taken"]
              /\ IF subPc[s] = "active"
                   THEN /\ subChan' = [subChan EXCEPT ![s] = "sent"]
                        /\ cancelLog' = [cancelLog EXCEPT ![s] = Append(@, "sent")]
                        /\ producedAtCancel' = [producedAtCancel EXCEPT ![s] = Produced(s)]
                   ELSE /\ cancelLog' = [cancelLog EXCEPT ![s] = Append(@, "panic")]
                        /\ UNCHANGED <<subChan, producedAtCancel>>
         ELSE /\ cancelLog' = [cancelLog EXCEPT ![s] = Append(@, "noop")]
              /\ UNCHANGED <<sub_cancel_sender, subChan, producedAtCancel>>
    /\ UNCHANGED <<subPc, stream, streamEnded, delivered, exit, cbRunning>>

\* The caller releases the handle: the Arc and, if still inside, the sender are
\* dropped, which closes the channel (lines 126-129).
SubscriptionHandleDrop(s) ==
    /\ sub_cancel_sender[s] \in {"some", "taken"}
    /\ sub_cancel_sender' = [sub_cancel_sender EXCEPT ![s] = "dropped"]
    /\ subChan' = [subChan EXCEPT ![s] =
                     IF sub_cancel_sender[s] = "some" /\ @ = "open" THEN "closed" ELSE @]
    /\ UNCHANGED <<subPc, stream, streamEnded, delivered, exit, cancelLog,
                   producedAtCancel, cbRunning>>

\* A spawned callback future completes (lines 187-189, 194-196).
CallbackDone(s) ==
    /\ cbRunning[s] > 0
    /\ cbRunning' = [cbRunning EXCEPT ![s] = @ - 1]
    /\ UNCHANGED <<subPc, stream, streamEnded, sub_cancel_sender, subChan, delivered,
                   exit, cancelLog, producedAtCancel>>

\* The collaborator's stream has another update ready each time the task comes
\* back to it.
StreamReady(s, kind) ==
    /\ subPc[s] = "active"
    /\ ~streamEnded[s]
    /\ stream[s] = <<>>
    /\ stream' = [stream EXCEPT ![s] = <<kind>>]
    /\ UNCHANGED <<subPc, streamEnded, sub_cancel_sender, subChan, delivered,
                   exit, cancelLog, producedAtCancel, cbRunning>>

\* set_auth (lines 463-474) with the session ready: the token replaces the session's.
SetAuth(tok) ==
    /\ client # 0
    /\ sessionAuth' = tok
    /\ sessionAuth' # sessionAuth

\* ------------------------------------------------ set_auth_with_refresh

\* A token as decode_jwt_expiry sees it: the number of dot-separated segments,
\* what the middle one decodes to ("bad_base64", "bad_json": not JSON or no
\* u64 field exp, "claims"), and the value of exp in the claims.
Jwt(n, p, e) == [segments |-> n, payload |-> p, exp |-> e]

\* The clock readings and tokens the loop is run with.
NowValues == {1000}
ExpValues == {0, 30, 1000, 1010, 1060, 1061, 1500}
Tokens == {Jwt(3, "claims", e) : e \in ExpValues}
            \cup {Jwt(2, "claims", 1500), Jwt(3, "bad_base64", 0), Jwt(3, "bad_json", 0)}
\* The tokens of the runs that follow the handle rather than the schedule.
FewTokens == {Jwt(3, "claims", 1500)}
\* No token: Option::None where a token may stand.
NoToken == Jwt(0, "none", 0)
\* The states of the future fetch_token returned.
Pending == [state |-> "pending", tok |-> NoToken]
ResolvedNone == [state |-> "None", tok |-> NoToken]
ResolvedSome(tok) == [state |-> "Some", tok |-> tok]
\* Option<u64>
NoneU64 == [some |-> FALSE, val |-> 0]
SomeU64(n) == [some |-> TRUE, val |-> n]

\* decode_jwt_expiry (lines 64-78): Some(exp) or None.
decode_jwt_expiry(tok) ==
    IF tok.segments # 3 THEN NoneU64
    ELSE IF tok.payload = "bad_base64" THEN NoneU64
    ELSE IF tok.payload = "bad_json" THEN NoneU64
    ELSE SomeU64(tok.exp)

\* u64::saturating_sub
saturating_sub(a, b) == IF a >= b THEN a - b ELSE 0

\* A plausible bug: the refresh buffer is not subtracted.
SleepDurationNoBuffer(tok, now) ==
    IF decode_jwt_expiry(tok).some
      THEN IF decode_jwt_expiry(tok).val > now THEN decode_jwt_expiry(tok).val - now
           ELSE MIN_REFRESH_INTERVAL_SECS
      ELSE DEFAULT_REFRESH_INTERVAL_SECS

\* The sleep the loop schedules after a fetch (lines 556-568), in seconds.
SleepDuration(tok, now) ==
    IF decode_jwt_expiry(tok).some
      THEN LET refresh_at == saturating_sub(decode_jwt_expiry(tok).val, REFRESH_BUFFER_SECS)
           IN  IF refresh_at > now THEN refresh_at - now
               ELSE MIN_REFRESH_INTERVAL_SECS
      ELSE DEFAULT_REFRESH_INTERVAL_SECS

InitAuthIdle ==
    /\ authPc = "none"
    /\ authExit = "none"
    /\ fetchResult = Pending
    /\ fetchCalls = 0
    /\ token = NoToken
    /\ now_secs = 0
    /\ sleep_duration = 0
    /\ sleepFired = FALSE
    /\ was_authenticated = FALSE
    /\ is_authenticated = FALSE
    /\ auth_cancel_sender = "none"
    /\ authChan = "open"
    /\ authChangeLog = <<>>
    /\ disposeLog = <<>>
    /\ fetchCallsAtDispose = -1

\* The receiver resolves after send and after the sender was dropped;
\* `_ = cancel_fut` matches both (lines 518, 576).
AuthCancelReady == authChan \in {"sent", "closed"}

\* set_auth_with_refresh (lines 491-508, 616) with the session ready: the flag
\* starts false, the loop's task is spawned, the handle is returned.
SetAuthWithRefresh ==
    /\ client # 0
    /\ authPc = "none"
    /\ authPc' = "spawned"
    /\ is_authenticated' = FALSE
    /\ auth_cancel_sender' = "some"
    /\ UNCHANGED <<authExit, fetchResult, fetchCalls, token, now_secs, sleep_duration, sleepFired,
                   was_authenticated, authChan, authChangeLog, disposeLog, fetchCallsAtDispose,
                   sessionAuth>>

\* The spawned task starts (lines 509-515): was_authenticated is false, the
\* first iteration calls fetch_token and reaches the select.
AuthLoopStart ==
    /\ authPc = "spawned"
    /\ authPc' = "fetching"
    /\ was_authenticated' = FALSE
    /\ fetchCalls' = fetchCalls + 1
    /\ fetchResult' = Pending
    /\ UNCHANGED <<authExit, token, now_secs, sleep_duration, sleepFired, is_authenticated,
                   auth_cancel_sender, authChan, authChangeLog, disposeLog, fetchCallsAtDispose,
                   sessionAuth>>

\* The future fetch_token returned resolves: no token, or a token.
FetchResolve(r) ==
    /\ authPc = "fetching"
    /\ fetchResult = Pending
    /\ fetchResult' = r
    /\ UNCHANGED <<authPc, authExit, fetchCalls, token, now_secs, sleep_duration, sleepFired,
                   was_authenticated, is_authenticated, auth_cancel_sender, authChan,
                   authChangeLog, disposeLog, fetchCallsAtDispose, sessionAuth>>

\* A plausible bug: the branches of the select in the other order.
AuthPollFetchTokenFirst(now) ==
    /\ authPc = "fetching"
    /\ IF fetchResult = Pending
         THEN /\ AuthCancelReady
              /\ authPc' = "clearing"
              /\ authExit' = "cancel_fetch"
              /\ UNCHANGED <<token, now_secs>>
         ELSE IF fetchResult = ResolvedNone
           THEN /\ authPc' = "clearing"
                /\ authExit' = "no_token"
                /\ UNCHANGED <<token, now_secs>>
           ELSE /\ authPc' = "applying"
                /\ token' = fetchResult.tok
                /\ now_secs' = now
                /\ UNCHANGED authExit
    /\ UNCHANGED <<fetchResult, fetchCalls, sleep_duration, sleepFired, was_authenticated,
                   is_authenticated, auth_cancel_sender, authChan, authChangeLog, disposeLog, fetchCallsAtDispose,
                   sessionAuth>>

\* A plausible bug: the flag is stored when the token is taken, before
\* set_auth(token) has completed.
AuthPollFetchFlagEarly(now) ==
    /\ authPc = "fetching"
    /\ IF AuthCancelReady
         THEN /\ authPc' = "clearing"
              /\ authExit' = "cancel_fetch"
              /\ UNCHANGED <<token, now_secs, is_authenticated>>
         ELSE /\ fetchResult # Pending
              /\ IF fetchResult = ResolvedNone
                   THEN /\ authPc' = "clearing"
                        /\ authExit' = "no_token"
                        /\ UNCHANGED <<token, now_secs, is_authenticated>>
                   ELSE /\ authPc' = "applying"
                        /\ token' = fetchResult.tok
                        /\ now_secs' = now
                        /\ is_authenticated' = TRUE
                        /\ UNCHANGED authExit
    /\ UNCHANGED <<fetchResult, fetchCalls, sleep_duration, sleepFired, was_authenticated,
                   auth_cancel_sender, authChan, authChangeLog, disposeLog, fetchCallsAtDispose,
                   sessionAuth>>

\* One evaluation of the select_biased! of lines 517-531 and what follows up to
\* the next await: the cancel future is polled first and a resolved one starts
\* set_auth(None); otherwise a resolved fetch is taken, the clock is read
\* (533-536), None starts set_auth(None) (596), a token starts set_auth(token) (542).
AuthPollFetch(now) ==
    /\ authPc = "fetching"
    /\ IF AuthCancelReady
         THEN /\ authPc' = "clearing"
              /\ authExit' = "cancel_fetch"
              /\ UNCHANGED <<token, now_secs>>
         ELSE /\ fetchResult # Pending
              /\ IF fetchResult = ResolvedNone
                   THEN /\ authPc' = "clearing"
                        /\ authExit' = "no_token"
                        /\ UNCHANGED <<token, now_secs>>
                   ELSE /\ authPc' = "applying"
                        /\ token' = fetchResult.tok
                        /\ now_secs' = now
                        /\ UNCHANGED authExit
    /\ UNCHANGED <<fetchResult, fetchCalls, sleep_duration, sleepFired, was_authenticated,
                   is_authenticated, auth_cancel_sender, authChan, authChangeLog, disposeLog, fetchCallsAtDispose,
                   sessionAuth>>

\* A plausible bug: on_auth_change(true) is called on every token applied,
\* not only on the first.
AuthAppliedNotifyEach ==
    /\ authPc = "applying"
    /\ sessionAuth' = token
    /\ was_authenticated' = TRUE
    /\ is_authenticated' = TRUE
    /\ authChangeLog' = Append(authChangeLog, TRUE)
    /\ sleep_duration' = SleepDuration(token, now_secs)
    /\ sleepFired' = FALSE
    /\ authPc' = "sleeping"
    /\ UNCHANGED <<authExit, fetchResult, fetchCalls, token, now_secs, auth_cancel_sender,
                   authChan, disposeLog, fetchCallsAtDispose>>

\* set_auth(Some(token)) completes (542); on the first token the flags are set
\* and on_auth_change(true) is called, its future spawned (545-553); the sleep
\* is computed and started (556-574).
AuthApplied ==
    /\ authPc = "applying"
    /\ sessionAuth' = token
    /\ IF ~was_authenticated
         THEN /\ was_authenticated' = TRUE
              /\ is_authenticated' = TRUE
              /\ authChangeLog' = Append(authChangeLog, TRUE)
         ELSE UNCHANGED <<was_authenticated, is_authenticated, authChangeLog>>
    /\ sleep_duration' = SleepDuration(token, now_secs)
    /\ sleepFired' = FALSE
    /\ authPc' = "sleeping"
    /\ UNCHANGED <<authExit, fetchResult, fetchCalls, token, now_secs, auth_cancel_sender,
                   authChan, disposeLog, fetchCallsAtDispose>>

\* The timer of the sleep elapses.
SleepElapse ==
    /\ authPc = "sleeping"
    /\ ~sleepFired
    /\ sleepFired' = TRUE
    /\ UNCHANGED <<authPc, authExit, fetchResult, fetchCalls, token, now_secs, sleep_duration,
                   was_authenticated, is_authenticated, auth_cancel_sender, authChan,
                   authChangeLog, disposeLog, fetchCallsAtDispose, sessionAuth>>

\* A plausible bug: the sleep is polled before the cancel future.
AuthPollSleepTimerFirst ==
    /\ authPc = "sleeping"
    /\ IF sleepFired
         THEN /\ fetchCalls < MaxFetches
              /\ authPc' = "fetching"
              /\ fetchCalls' = fetchCalls + 1
              /\ fetchResult' = Pending
              /\ UNCHANGED authExit
         ELSE /\ AuthCancelReady
              /\ authPc' = "clearing"
              /\ authExit' = "cancel_sleep"
              /\ UNCHANGED <<fetchCalls, fetchResult>>
    /\ UNCHANGED <<token, now_secs, sleep_duration, sleepFired, was_authenticated,
                   is_authenticated, auth_cancel_sender, authChan, authChangeLog, disposeLog, fetchCallsAtDispose,
                   sessionAuth>>

\* One evaluation of the select_biased! of lines 575-590: the cancel future is
\* polled first and a resolved one starts set_auth(None); otherwise an elapsed
\* sleep continues the loop, which calls fetch_token again (514-515).
AuthPollSleep ==
    /\ authPc = "sleeping"
    /\ IF AuthCancelReady
         THEN /\ authPc' = "clearing"
              /\ authExit' = "cancel_sleep"
              /\ UNCHANGED <<fetchCalls, fetchResult>>
         ELSE /\ sleepFired
              /\ fetchCalls < MaxFetches
              /\ authPc' = "fetching"
              /\ fetchCalls' = fetchCalls + 1
              /\ fetchResult' = Pending
              /\ UNCHANGED authExit
    /\ UNCHANGED <<token, now_secs, sleep_duration, sleepFired, was_authenticated,
                   is_authenticated, auth_cancel_sender, authChan, authChangeLog, disposeLog, fetchCallsAtDispose,
                   sessionAuth>>

\* A plausible bug: after fetch_token returned None the loop goes on to the next
\* iteration instead of breaking.
AuthClearedNoBreak ==
    /\ authPc = "clearing"
    /\ sessionAuth' = NoToken
    /\ IF authExit = "no_token"
         THEN /\ fetchCalls < MaxFetches
              /\ authPc' = "fetching"
              /\ fetchCalls' = fetchCalls + 1
              /\ fetchResult' = Pending
              /\ is_authenticated' = IF was_authenticated THEN FALSE ELSE is_authenticated
              /\ authChangeLog' = IF was_authenticated THEN Append(authChangeLog, FALSE)
                                  ELSE authChangeLog
         ELSE /\ authPc' = IF was_authenticated THEN "notifying" ELSE "done"
              /\ authChangeLog' = IF was_authenticated THEN Append(authChangeLog, FALSE)
                                  ELSE authChangeLog
              /\ UNCHANGED <<is_authenticated, fetchCalls, fetchResult>>
    /\ UNCHANGED <<authExit, token, now_secs, sleep_duration,
                   sleepFired, was_authenticated, auth_cancel_sender, authChan, disposeLog,
                   fetchCallsAtDispose>>

\* set_auth(None) completes. After a cancellation (522-528, 579-585) the loop
\* calls on_auth_change(false) if was_authenticated and awaits it, then breaks.
\* After fetch_token returned None (596-608) it stores false in the flag and
\* calls on_auth_change(false), its future spawned, if was_authenticated, then breaks.
AuthCleared ==
    /\ authPc = "clearing"
    /\ sessionAuth' = NoToken
    /\ IF authExit = "no_token"
         THEN /\ authPc' = "done"
              /\ is_authenticated' = IF was_authenticated THEN FALSE ELSE is_authenticated
              /\ authChangeLog' = IF was_authenticated THEN Append(authChangeLog, FALSE)
                                  ELSE authChangeLog
         ELSE /\ authPc' = IF was_authenticated THEN "notifying" ELSE "done"
              /\ authChangeLog' = IF was_authenticated THEN Append(authChangeLog, FALSE)
                                  ELSE authChangeLog
              /\ UNCHANGED is_authenticated
    /\ UNCHANGED <<authExit, fetchResult, fetchCalls, token, now_secs, sleep_duration,
                   sleepFired, was_authenticated, auth_cancel_sender, authChan, disposeLog, fetchCallsAtDispose>>

\* The awaited on_auth_change(false) future completes (526, 583); the loop breaks.
AuthNotified ==
    /\ authPc = "notifying"
    /\ authPc' = "done"
    /\ UNCHANGED <<authExit, fetchResult, fetchCalls, token, now_secs, sleep_duration,
                   sleepFired, was_authenticated, is_authenticated, auth_cancel_sender,
                   authChan, authChangeLog, disposeLog, fetchCallsAtDispose, sessionAuth>>

\* AuthHandle::dispose (lines 165-169), under the handle's mutex: take the
\* sender; if there was one, send and ignore the result.
AuthDispose ==
    /\ auth_cancel_sender \in {"some", "taken"}
    /\ Len(disposeLog) < MaxCancelCalls
    /\ IF auth_cancel_sender = "some"
         THEN /\ auth_cancel_sender' = "taken"
              /\ IF authPc # "done"
                   THEN /\ authChan' = "sent"
                        /\ disposeLog' = Append(disposeLog, "sent")
                        /\ fetchCallsAtDispose' = fetchCalls
                   ELSE /\ disposeLog' = Append(disposeLog, "ignored")
                        /\ UNCHANGED <<authChan, fetchCallsAtDispose>>
         ELSE /\ disposeLog' = Append(disposeLog, "noop")
              /\ UNCHANGED <<auth_cancel_sender, authChan, fetchCallsAtDispose>>
    /\ UNCHANGED <<authPc, authExit, fetchResult, fetchCalls, token, now_secs, sleep_duration,
                   sleepFired, was_authenticated, is_authenticated, authChangeLog, sessionAuth>>

\* The caller releases the handle: the sender, if still inside, is dropped,
\* which closes the channel (lines 150-153).
AuthHandleDrop ==
    /\ auth_cancel_sender \in {"some", "taken"}
    /\ auth_cancel_sender' = "dropped"
    /\ authChan' = IF auth_cancel_sender = "some" /\ authChan = "open" THEN "closed" ELSE authChan
    /\ UNCHANGED <<authPc, authExit, fetchResult, fetchCalls, token, now_secs, sleep_duration,
                   sleepFired, was_authenticated, is_authenticated, authChangeLog, disposeLog, fetchCallsAtDispose,
                   sessionAuth>>

\* ------------------------------------------------------ the state relay

\* ConvexWebSocketState, the collaborator's connection states (lib.rs 19, 93-100).
ConvexWebSocketStates == {"ConvexWebSocketState::Connected", "ConvexWebSocketState::Connecting"}

\* impl From<ConvexWebSocketState> for WebSocketConnectionState (lines 93-100).
FromWebSocketState(state) ==
    CASE state = "ConvexWebSocketState::Connected" -> "Connected"
      [] state = "ConvexWebSocketState::Connecting" -> "Connecting"

\* The sender the session was built with; 0: none (lines 307-312).
SessionSink == IF client = 0 THEN 0 ELSE attemptSink[client]

InitRelayIdle ==
    /\ emitted = <<>>
    /\ relayQueue = <<>>
    /\ relayPc = "waiting"
    /\ relayCalls = <<>>
    /\ relayRunning = 0

\* A client on which on_websocket_state_change was called once and the first
\* caller of connected_client() then got the session of attempt 1.
InitWired ==
    /\ state_change_sender = 1
    /\ client = 1
    /\ callerPc = [c \in Callers |-> IF c = 1 THEN "returned" ELSE "idle"]
    /\ state_sender = [c \in Callers |-> IF c = 1 THEN 1 ELSE 0]
    /\ joined = [c \in Callers |-> IF c = 1 THEN 1 ELSE 0]
    /\ result = [c \in Callers |-> IF c = 1 THEN OkResult(1) ELSE NoResult]
    /\ attempts = 1
    /\ attemptSink = <<1>>

\* The session's collaborator emits a state event into the sender it was built
\* with (lines 307-309); the channel holds at most RelayCapacity events (257) and
\* the producer waits while it is full. A session built without a sender has
\* nowhere to send the event (310-312).
CollaboratorEmit(state) ==
    /\ client # 0
    /\ Len(emitted) < MaxEvents
    /\ emitted' = Append(emitted, state)
    /\ IF SessionSink = 0
         THEN UNCHANGED relayQueue
         ELSE /\ Len(relayQueue) < RelayCapacity
              /\ relayQueue' = Append(relayQueue, state)
    /\ UNCHANGED <<relayPc, relayCalls, relayRunning>>

\* A plausible bug: the callback's future is spawned, the task goes back to recv().
RelayRecvSpawned ==
    /\ relayPc = "waiting"
    /\ relayQueue # <<>>
    /\ relayQueue' = Tail(relayQueue)
    /\ relayCalls' = Append(relayCalls, FromWebSocketState(Head(relayQueue)))
    /\ relayRunning' = relayRunning + 1
    /\ UNCHANGED <<relayPc, emitted>>

\* The forwarding task (lines 272-279): recv() yields the oldest event, it is
\* converted, the callback is called and its future awaited.
RelayRecv ==
    /\ relayPc = "waiting"
    /\ relayQueue # <<>>
    /\ relayQueue' = Tail(relayQueue)
    /\ relayCalls' = Append(relayCalls, FromWebSocketState(Head(relayQueue)))
    /\ relayRunning' = relayRunning + 1
    /\ relayPc' = "calling"
    /\ UNCHANGED emitted

\* A future of the callback completes (line 279-280); the task that awaits it
\* goes back to recv().
RelayCallbackDone ==
    /\ relayRunning > 0
    /\ relayRunning' = relayRunning - 1
    /\ relayPc' = "waiting"
    /\ UNCHANGED <<emitted, relayQueue, relayCalls>>

\* ------------------------------------------------ query, mutation, action

Kinds == {"query", "mutation", "action"}

\* The JSON texts the callers pass as argument values.
ArgStrings == {"1", "true", "{", "{\"$integer\":\"?\"}"}
ArgKeys == {"a", "b"}
\* HashMap<String, String>: a set of key-value pairs with unique keys.
ArgMaps == {m \in SUBSET (ArgKeys \X ArgStrings) :
               \A p, q \in m : p[1] = q[1] => p = q}

\* serde_json::from_str::<serde_json::Value> (line 628).
serde_json_from_str(v) ==
    CASE v = "1" -> [ok |-> TRUE, json |-> "Number(1)"]
      [] v = "true" -> [ok |-> TRUE, json |-> "Bool(true)"]
      [] v = "{" -> [ok |-> FALSE, json |-> "EOF while parsing an object"]
      [] v = "{\"$integer\":\"?\"}" -> [ok |-> TRUE, json |-> "Object($integer: ?)"]

\* Value::try_from(serde_json::Value) (line 627).
Value_try_from(json) ==
    CASE json = "Number(1)" -> [ok |-> TRUE, value |-> "Float64(1)"]
      [] json = "Bool(true)" -> [ok |-> TRUE, value |-> "Boolean(true)"]
      [] json = "Object($integer: ?)" -> [ok |-> FALSE, value |-> "invalid $integer"]

\* parse_json_args (lines 621-635): every value is parsed as JSON and converted,
\* and either step's expect() panics on an Err.
parse_json_args(raw_args) ==
    IF \E p \in raw_args :
          \/ ~serde_json_from_str(p[2]).ok
          \/ ~Value_try_from(serde_json_from_str(p[2]).json).ok
      THEN [panic |-> TRUE, args |-> {}]
      ELSE [panic |-> FALSE,
            args |-> {<<p[1], Value_try_from(serde_json_from_str(p[2]).json).value>> : p \in raw_args}]

\* serde_json::to_string(&serde_json::Value::from(value)) (lines 640, 643).
to_string(value) ==
    CASE value = "Float64(1)" -> "1.0"
      [] value = "Boolean(true)" -> "true"

\* What the collaborator's query/mutation/action returns: Ok(FunctionResult) or
\* Err(anyhow::Error).
FunctionResultValue(v) == [tag |-> "Value", message |-> "", data |-> v]
FunctionResultConvexError(msg, v) == [tag |-> "ConvexError", message |-> msg, data |-> v]
FunctionResultErrorMessage(msg) == [tag |-> "ErrorMessage", message |-> msg, data |-> ""]
AnyhowError(msg) == [tag |-> "Err", message |-> msg, data |-> ""]
NoOutcome == [tag |-> "none", message |-> "", data |-> ""]
ValueData == {"Float64(1)", "Boolean(true)"}
Messages == {"m1", "m2"}
CollabOutcomes ==
    {FunctionResultValue(v) : v \in ValueData}
      \cup {FunctionResultConvexError(msg, v) : msg \in {"m1"}, v \in ValueData}
      \cup {FunctionResultErrorMessage(msg) : msg \in Messages}
      \cup {AnyhowError(msg) : msg \in Messages}

\* Result<String, ClientError> (lines 34-46).
NoCallResult == [kind |-> "none", text |-> ""]
OkString(s) == [kind |-> "Ok", text |-> s]
InternalError(msg) == [kind |-> "InternalError", text |-> msg]
ConvexError(data) == [kind |-> "ConvexError", text |-> data]
ServerError(msg) == [kind |-> "ServerError", text |-> msg]

\* impl From<anyhow::Error> for ClientError (lines 48-54).
FromAnyhow(e) == InternalError(e.message)

\* A plausible bug: two arms of the match with their errors exchanged.
handle_direct_function_result_swapped(r) ==
    CASE r.tag = "Value" -> OkString(to_string(r.data))
      [] r.tag = "ConvexError" -> ServerError(r.message)
      [] r.tag = "ErrorMessage" -> ConvexError(r.message)

\* handle_direct_function_result (lines 638-647). (to_string of a
\* serde_json::Value into a String does not fail.)
handle_direct_function_result(r) ==
    CASE r.tag = "Value" -> OkString(to_string(r.data))
      [] r.tag = "ConvexError" -> ConvexError(to_string(r.data))
      [] r.tag = "ErrorMessage" -> ServerError(r.message)

InitCallIdle ==
    /\ callPc = [c \in Callers |-> "none"]
    /\ callKind = [c \in Callers |-> "none"]
    /\ callArgs = [c \in Callers |-> {}]
    /\ callOutcome = [c \in Callers |-> NoOutcome]
    /\ callResult = [c \in Callers |-> NoCallResult]

\* query / mutation / action is called (lines 328-333, 414-419, 424-429,
\* 437-443, 449-454): its first step is connected_client().
CallBegin(c, kind, raw_args) ==
    /\ callPc[c] = "none"
    /\ ConnectedClientEnter(c)
    /\ callPc' = [callPc EXCEPT ![c] = "connecting"]
    /\ callKind' = [callKind EXCEPT ![c] = kind]
    /\ callArgs' = [callArgs EXCEPT ![c] = raw_args]
    /\ UNCHANGED <<callOutcome, callResult>>

\* A plausible bug: mutation and action parse their arguments in the caller's
\* future, as query does.
CallConnectedParseInline(c) ==
    /\ callPc[c] = "connecting"
    /\ callerPc[c] = "returned"
    /\ IF result[c].kind = "err"
         THEN /\ callPc' = [callPc EXCEPT ![c] = "returned"]
              /\ callResult' = [callResult EXCEPT ![c] =
                                   FromAnyhow(AnyhowError("connect failed"))]
         ELSE IF parse_json_args(callArgs[c]).panic
           THEN /\ callPc' = [callPc EXCEPT ![c] = "aborted"]
                /\ UNCHANGED callResult
           ELSE /\ callPc' = [callPc EXCEPT ![c] = "invoking"]
                /\ UNCHANGED callResult
    /\ UNCHANGED <<callKind, callArgs, callOutcome>>

\* connected_client() has returned to the operation. An Err is converted by `?`
\* (333, 429, 454 and 419, 443). Otherwise the arguments are parsed: by query in
\* the caller's own future (335), where a panic of parse_json_args unwinds
\* through the operation; by mutation and action inside the task they spawn
\* (431, 457), where the panic ends the task, the JoinHandle yields a JoinError
\* and `.await?` converts it. With the arguments parsed the collaborator is invoked.
CallConnected(c) ==
    /\ callPc[c] = "connecting"
    /\ callerPc[c] = "returned"
    /\ IF result[c].kind = "err"
         THEN /\ callPc' = [callPc EXCEPT ![c] = "returned"]
              /\ callResult' = [callResult EXCEPT ![c] =
                                   FromAnyhow(AnyhowError("connect failed"))]
         ELSE IF parse_json_args(callArgs[c]).panic
           THEN IF callKind[c] = "query"
                  THEN /\ callPc' = [callPc EXCEPT ![c] = "aborted"]
                       /\ UNCHANGED callResult
                  ELSE /\ callPc' = [callPc EXCEPT ![c] = "returned"]
                       /\ callResult' = [callResult EXCEPT ![c] =
                                            FromAnyhow(AnyhowError("task panicked"))]
           ELSE /\ callPc' = [callPc EXCEPT ![c] = "invoking"]
                /\ UNCHANGED callResult
    /\ UNCHANGED <<callKind, callArgs, callOutcome>>

\* The collaborator's operation returns (335-337, 419-420, 431-432, 443-445,
\* 457-458): an Err is converted by `?`, a FunctionResult by
\* handle_direct_function_result.
CollaboratorReturn(c, outcome) ==
    /\ callPc[c] = "invoking"
    /\ callPc' = [callPc EXCEPT ![c] = "returned"]
    /\ callOutcome' = [callOutcome EXCEPT ![c] = outcome]
    /\ callResult' = [callResult EXCEPT ![c] =
                         IF outcome.tag = "Err" THEN FromAnyhow(outcome)
                         ELSE handle_direct_function_result(outcome)]
    /\ UNCHANGED <<callKind, callArgs>>

\* The steps of the subscriptions in S, whose streams produce updates of the
\* kinds in K, and of set_auth.
NextSubOf(S, K) ==
    \/ \E s \in S : Subscribe(s) /\ UNCHANGED <<connVars, sessionAuth, authVars, relayVars, callVars>>
    \/ \E s \in S : SubscribeErr(s) /\ UNCHANGED <<connVars, sessionAuth, authVars, relayVars, callVars>>
    \/ \E s \in S, k \in K :
          StreamProduce(s, k) /\ UNCHANGED <<connVars, sessionAuth, authVars, relayVars, callVars>>
    \/ \E s \in S : StreamEnd(s) /\ UNCHANGED <<connVars, sessionAuth, authVars, relayVars, callVars>>
    \/ \E s \in S : SubPoll(s) /\ UNCHANGED <<connVars, sessionAuth, authVars, relayVars, callVars>>
    \/ \E s \in S : SubscriptionCancel(s) /\ UNCHANGED <<connVars, sessionAuth, authVars, relayVars, callVars>>
    \/ \E s \in S : SubscriptionHandleDrop(s) /\ UNCHANGED <<connVars, sessionAuth, authVars, relayVars, callVars>>
    \/ \E tok \in FewTokens \cup {NoToken} : SetAuth(tok) /\ UNCHANGED <<connVars, subVars, authVars, relayVars, callVars>>

\* The steps of one refresh loop whose fetch_token returns None or a token of T.
NextAuthOf(T) ==
    \/ SetAuthWithRefresh /\ UNCHANGED <<connVars, subVars, relayVars, callVars>>
    \/ AuthLoopStart /\ UNCHANGED <<connVars, subVars, relayVars, callVars>>
    \/ \E r \in {ResolvedSome(tok) : tok \in T} \cup {ResolvedNone} :
          FetchResolve(r) /\ UNCHANGED <<connVars, subVars, relayVars, callVars>>
    \/ \E now \in NowValues : AuthPollFetch(now) /\ UNCHANGED <<connVars, subVars, relayVars, callVars>>
    \/ AuthApplied /\ UNCHANGED <<connVars, subVars, relayVars, callVars>>
    \/ SleepElapse /\ UNCHANGED <<connVars, subVars, relayVars, callVars>>
    \/ AuthPollSleep /\ UNCHANGED <<connVars, subVars, relayVars, callVars>>
    \/ AuthCleared /\ UNCHANGED <<connVars, subVars, relayVars, callVars>>
    \/ AuthNotified /\ UNCHANGED <<connVars, subVars, relayVars, callVars>>
    \/ AuthDispose /\ UNCHANGED <<connVars, subVars, relayVars, callVars>>
    \/ AuthHandleDrop /\ UNCHANGED <<connVars, subVars, relayVars, callVars>>

\* The steps of the relay of an established session.
NextRelay ==
    \/ \E state \in ConvexWebSocketStates :
          CollaboratorEmit(state) /\ UNCHANGED <<connVars, sessionAuth, subVars, authVars, callVars>>
    \/ RelayRecv /\ UNCHANGED <<connVars, sessionAuth, subVars, authVars, callVars>>
    \/ RelayCallbackDone /\ UNCHANGED <<connVars, sessionAuth, subVars, authVars, callVars>>

\* The steps of the callers in C of connected_client(), of the registration of
\* the listener and of the relay, with the session emitting a few events.
NextWireOf(C) ==
    \/ OnWebsocketStateChange /\ UNCHANGED <<sessionAuth, subVars, authVars, relayVars, callVars>>
    \/ \E c \in C : ConnectedClientEnter(c) /\ UNCHANGED <<sessionAuth, subVars, authVars, relayVars, callVars>>
    \/ \E c \in C : GetOrTryInit(c) /\ UNCHANGED <<sessionAuth, subVars, authVars, relayVars, callVars>>
    \/ \E c \in C : BuildOk(c) /\ UNCHANGED <<sessionAuth, subVars, authVars, relayVars, callVars>>
    \/ \E c \in C : BuildErr(c) /\ UNCHANGED <<sessionAuth, subVars, authVars, relayVars, callVars>>
    \/ \E c \in C : QueueObserveReady(c) /\ UNCHANGED <<sessionAuth, subVars, authVars, relayVars, callVars>>
    \/ \E c \in C : QueueTakeOver(c) /\ UNCHANGED <<sessionAuth, subVars, authVars, relayVars, callVars>>
    \/ \E state \in ConvexWebSocketStates :
          /\ Len(emitted) < FewEvents
          /\ CollaboratorEmit(state)
          /\ UNCHANGED <<connVars, sessionAuth, subVars, authVars, callVars>>
    \/ RelayRecv /\ UNCHANGED <<connVars, sessionAuth, subVars, authVars, callVars>>
    \/ RelayCallbackDone /\ UNCHANGED <<connVars, sessionAuth, subVars, authVars, callVars>>

\* The steps of the operation caller c runs on the client.
NextCallOf(c) ==
    \/ \E kind \in Kinds, raw_args \in ArgMaps :
          /\ CallBegin(c, kind, raw_args)
          /\ UNCHANGED <<sessionAuth, subVars, authVars, relayVars>>
    \/ GetOrTryInit(c) /\ UNCHANGED <<sessionAuth, subVars, authVars, relayVars, callVars>>
    \/ BuildOk(c) /\ UNCHANGED <<sessionAuth, subVars, authVars, relayVars, callVars>>
    \/ BuildErr(c) /\ UNCHANGED <<sessionAuth, subVars, authVars, relayVars, callVars>>
    \/ CallConnected(c) /\ UNCHANGED <<connVars, sessionAuth, subVars, authVars, relayVars>>
    \/ \E outcome \in CollabOutcomes :
          /\ CollaboratorReturn(c, outcome)
          /\ UNCHANGED <<connVars, sessionAuth, subVars, authVars, relayVars>>

\* The steps of the subscription s whose stream always has an update ready,
\* and of the futures of its callbacks.
NextSubReadyOf(s) ==
    \/ Subscribe(s) /\ UNCHANGED <<connVars, sessionAuth, authVars, relayVars, callVars>>
    \/ \E k \in UpdateKinds :
          StreamReady(s, k) /\ UNCHANGED <<connVars, sessionAuth, authVars, relayVars, callVars>>
    \/ StreamEnd(s) /\ UNCHANGED <<connVars, sessionAuth, authVars, relayVars, callVars>>
    \/ SubPoll(s) /\ UNCHANGED <<connVars, sessionAuth, authVars, relayVars, callVars>>
    \/ CallbackDone(s) /\ UNCHANGED <<connVars, sessionAuth, authVars, relayVars, callVars>>
    \/ SubscriptionCancel(s) /\ UNCHANGED <<connVars, sessionAuth, authVars, relayVars, callVars>>

\* The steps of the subscription s whose stream yields no update.
NextSubQuietOf(s) ==
    \/ Subscribe(s) /\ UNCHANGED <<connVars, sessionAuth, authVars, relayVars, callVars>>
    \/ StreamEnd(s) /\ UNCHANGED <<connVars, sessionAuth, authVars, relayVars, callVars>>
    \/ SubPoll(s) /\ UNCHANGED <<connVars, sessionAuth, authVars, relayVars, callVars>>
    \/ SubscriptionCancel(s) /\ UNCHANGED <<connVars, sessionAuth, authVars, relayVars, callVars>>
    \/ SubscriptionHandleDrop(s) /\ UNCHANGED <<connVars, sessionAuth, authVars, relayVars, callVars>>

InitIdle == InitSubIdle /\ InitAuthIdle /\ InitRelayIdle /\ InitCallIdle /\ sessionAuth = NoToken

\* A fresh client.
Init == InitConn /\ InitIdle

\* A client whose session is established and that has done nothing else.
InitReady == InitConnected /\ InitIdle

\* A client whose session is established with a registered listener.
InitRelayReady == InitWired /\ InitIdle

\* The callers of connected_client() on a fresh client.
SpecConn == Init /\ [][NextConn]_vars

\* One subscription.
SpecSub == InitReady /\ [][NextSubOf({1}, UpdateKinds)]_vars

\* Two subscriptions side by side: the first gets value and error updates, the
\* stream of the second yields none before it ends.
SpecSubs == InitReady /\ [][\/ NextSubOf({1}, {"Value", "ErrorMessage"})
                            \/ NextSubQuietOf(2)]_vars

\* One refresh loop.
SpecAuth == InitReady /\ [][NextAuthOf(Tokens)]_vars

\* One subscription and one refresh loop on the same client.
SpecHandles == InitReady /\ [][NextSubOf({1}, {"Value"}) \/ NextAuthOf(FewTokens)]_vars

\* One refresh loop whose task is scheduled and whose set_auth(None) and awaited
\* on_auth_change calls complete.
SpecAuthFair ==
    /\ SpecAuth
    /\ WF_vars(AuthLoopStart /\ UNCHANGED <<connVars, subVars, relayVars, callVars>>)
    /\ WF_vars(\E now \in NowValues :
                  AuthPollFetch(now) /\ UNCHANGED <<connVars, subVars, relayVars, callVars>>)
    /\ WF_vars(AuthPollSleep /\ UNCHANGED <<connVars, subVars, relayVars, callVars>>)
    /\ WF_vars(AuthApplied /\ UNCHANGED <<connVars, subVars, relayVars, callVars>>)
    /\ WF_vars(AuthCleared /\ UNCHANGED <<connVars, subVars, relayVars, callVars>>)
    /\ WF_vars(AuthNotified /\ UNCHANGED <<connVars, subVars, relayVars, callVars>>)

\* The relay of an established session.
SpecRelay == InitRelayReady /\ [][NextRelay]_vars

\* Two callers of connected_client(), the registration and the relay.
SpecWire == Init /\ [][NextWireOf({1, 2})]_vars

\* One operation on a fresh client.
SpecCall == Init /\ [][NextCallOf(1)]_vars

\* One subscription whose stream is always ready; the task is scheduled and
\* the futures of its callbacks complete.
SpecSubFair ==
    /\ InitReady
    /\ [][NextSubReadyOf(1)]_vars
    /\ WF_vars(SubPoll(1) /\ UNCHANGED <<connVars, sessionAuth, authVars, relayVars, callVars>>)
    /\ WF_vars(CallbackDone(1) /\ UNCHANGED <<connVars, sessionAuth, authVars, relayVars, callVars>>)

\* ------------------------------------------------------------- claims

Range(seq) == {seq[i] : i \in 1..Len(seq)}

C3_NoDeliveryAfterCancelAck ==
    \A s \in Subs :
        producedAtCancel[s] >= 0 => Len(delivered[s]) <= producedAtCancel[s]

\* C4: an evaluation of the task's select that finds an update and the
\* cancellation both ready delivers the update and leaves the task running;
\* the task leaves by the cancellation branch only when no update is ready.
C4_UpdatePriority ==
    [][\A s \in Subs :
          /\ ( /\ subPc[s] = "active"
               /\ stream[s] # <<>>
               /\ CancelReady(s)
               /\ (delivered'[s] # delivered[s] \/ subPc'[s] # subPc[s]) )
             => /\ delivered'[s] = Append(delivered[s], CallbackOf(Head(stream[s])))
                /\ subPc'[s] = "active"
          /\ (exit[s] = "none" /\ exit'[s] = "cancel") => stream[s] = <<>>]_vars

\* An update that arrived after cancel() had sent the signal was delivered, and
\* the task then left by the cancellation branch.
C4_Witness ==
    \E s \in Subs :
        /\ subChan[s] = "sent"
        /\ producedAtCancel[s] >= 0
        /\ Len(delivered[s]) > producedAtCancel[s]
        /\ exit[s] = "cancel"

\* C5: on either handle only the first cancel() or dispose() call can send the
\* signal; every later call finds the sender taken, raises no error and
\* changes nothing of the subscription or of the refresh loop.
C5_CancelIdempotent ==
    /\ [](/\ \A s \in Subs : \A i \in 2..Len(cancelLog[s]) : cancelLog[s][i] = "noop"
          /\ \A i \in 2..Len(disposeLog) : disposeLog[i] = "noop")
    /\ [][/\ \A s \in Subs :
               (Len(cancelLog[s]) >= 1 /\ cancelLog'[s] # cancelLog[s]) =>
                   UNCHANGED <<subPc[s], stream[s], streamEnded[s], sub_cancel_sender[s],
                               subChan[s], delivered[s], exit[s], producedAtCancel[s]>>
          /\ (Len(disposeLog) >= 1 /\ disposeLog' # disposeLog) =>
                 UNCHANGED <<authPc, authExit, fetchResult, fetchCalls, token, sleep_duration,
                             sleepFired, was_authenticated, is_authenticated,
                             auth_cancel_sender, authChan, authChangeLog, sessionAuth>>]_vars

\* Both handles were cancelled twice, the first call of each having sent.
C5_Witness ==
    /\ cancelLog[1] = <<"sent", "noop">>
    /\ disposeLog = <<"sent", "noop">>

\* C6 as stated: no cancel() call on the handle of a subscription whose stream
\* has ended aborts.
C6_CancelAfterEndIsNoop ==
    \A s \in Subs : exit[s] = "end" => "panic" \notin Range(cancelLog[s])

\* C7 as stated: the task leaves Active only when its stream has ended or
\* cancel() on its own handle has sent the signal.
C7_OnlyCancelOrEnd ==
    [][\A s \in Subs :
          (subPc[s] = "active" /\ subPc'[s] = "terminated") =>
              \/ exit'[s] = "end" /\ streamEnded[s] /\ stream[s] = <<>>
              \/ exit'[s] = "cancel" /\ subChan[s] = "sent"]_vars

\* C7 as amended: the task leaves Active only when its stream has ended, when
\* cancel() on its own handle has sent the signal, or when its own handle was
\* released with the sender still inside; nothing else closes or signals its channel.
C7_OnlyCancelDropOrEnd ==
    /\ [](\A s \in Subs :
             /\ subChan[s] = "sent" => cancelLog[s] # <<>> /\ cancelLog[s][1] = "sent"
             /\ subChan[s] = "closed" => sub_cancel_sender[s] = "dropped" /\ cancelLog[s] = <<>>)
    /\ [][\A s \in Subs :
             (subPc[s] = "active" /\ subPc'[s] = "terminated") =>
                 \/ exit'[s] = "end" /\ streamEnded[s] /\ stream[s] = <<>>
                 \/ exit'[s] = "cancel" /\ subChan[s] \in {"sent", "closed"}]_vars

\* One subscription ended because its handle was released without cancel();
\* the other, whose handle was not touched, is still active after that, after
\* an error delivery and after a set_auth.
C7_Witness ==
    \E s, u \in Subs :
        /\ s # u
        /\ subPc[s] = "terminated" /\ exit[s] = "cancel"
        /\ sub_cancel_sender[s] = "dropped" /\ cancelLog[s] = <<>>
        /\ subPc[u] = "active" /\ sub_cancel_sender[u] = "some"
        /\ Len(delivered[u]) = 2 /\ delivered[u][1].cb = "on_error"
        /\ sessionAuth # NoToken

\* C8: a cancellation found at the sleep's select makes the loop clear the
\* remote auth and end without another fetch_token call; it then has called
\* on_auth_change(false) exactly if it had called on_auth_change(true) before.
C8_CancelDuringSleep ==
    /\ [][(authPc = "sleeping" /\ AuthCancelReady /\ authPc' # authPc) =>
              (authPc' = "clearing" /\ authExit' = "cancel_sleep")]_vars
    /\ [][authExit = "cancel_sleep" =>
              /\ fetchCalls' = fetchCalls
              /\ authExit' = authExit
              /\ (authPc = "clearing" /\ authPc' # authPc) =>
                     (sessionAuth' = NoToken /\ authPc' \in {"notifying", "done"})
              /\ authPc \in {"notifying", "done"} => authPc' \in {"notifying", "done"}]_vars
    /\ []((authExit = "cancel_sleep" /\ authPc \in {"notifying", "done"}) =>
              /\ sessionAuth = NoToken
              /\ (FALSE \in Range(authChangeLog)) <=> (TRUE \in Range(authChangeLog))
              /\ authChangeLog = <<TRUE, FALSE>>)

\* The loop was cancelled in its sleep, with the timer elapsed as well, and has ended.
C8_Witness ==
    /\ authExit = "cancel_sleep"
    /\ authPc = "done"
    /\ sleepFired
    /\ authChangeLog = <<TRUE, FALSE>>

\* C9: with the cancellation ready together with the fetch result or the
\* elapsed sleep, the loop takes the cancellation branch: it neither applies
\* the fetched token nor fetches again, it clears the remote auth and ends.
C9_CancelPriority ==
    [][/\ (authPc = "fetching" /\ AuthCancelReady /\ fetchResult # Pending /\ authPc' # authPc) =>
              /\ authPc' = "clearing"
              /\ authExit' = "cancel_fetch"
              /\ UNCHANGED <<sessionAuth, token, fetchCalls>>
       /\ (authPc = "sleeping" /\ AuthCancelReady /\ sleepFired /\ authPc' # authPc) =>
              /\ authPc' = "clearing"
              /\ UNCHANGED <<sessionAuth, token, fetchCalls>>
       /\ (authPc = "clearing" /\ authPc' # authPc) =>
              /\ sessionAuth' = NoToken
              /\ authPc' \in {"notifying", "done"}
       /\ authPc \in {"clearing", "notifying", "done"} =>
              /\ authPc' \in {"clearing", "notifying", "done"}
              /\ UNCHANGED <<token, fetchCalls>>]_vars

\* The cancellation won against a fetch that had resolved to a token: the loop
\* has ended, the remote auth is cleared and that token was never applied.
C9_Witness ==
    /\ authExit = "cancel_fetch"
    /\ authPc = "done"
    /\ fetchResult.state = "Some"
    /\ token = NoToken
    /\ sessionAuth = NoToken

\* C10 as stated: after the loop ended by cancellation is_authenticated() is
\* false, and the flag is true only while the session holds a token the loop applied.
C10_FlagFollowsAuth ==
    /\ (authPc = "done" /\ authExit \in {"cancel_fetch", "cancel_sleep"}) => ~is_authenticated
    /\ is_authenticated => sessionAuth # NoToken

\* C11: the authenticated flag is false when the handle is created and until the
\* first token is applied; it becomes true only in the step in which
\* set_auth(token) of a fetched token completes, and false only in the step in
\* which set_auth(None) completes; no other step changes it.
C11_FlagWrites ==
    /\ []((authPc = "spawned" \/ (authPc = "fetching" /\ fetchCalls = 1)) => ~is_authenticated)
    /\ [][/\ (~is_authenticated /\ is_authenticated') =>
                 /\ authPc = "applying" /\ authPc' = "sleeping"
                 /\ token # NoToken
                 /\ fetchResult = ResolvedSome(token)
                 /\ sessionAuth' = token
          /\ (is_authenticated /\ ~is_authenticated') =>
                 /\ authPc = "clearing" /\ authPc' = "done"
                 /\ sessionAuth' = NoToken]_vars

\* The flag went to true with a token applied and back to false with the
\* remote auth cleared.
C11_Witness ==
    /\ authChangeLog = <<TRUE, FALSE>>
    /\ ~is_authenticated
    /\ sessionAuth = NoToken
    /\ token # NoToken

\* C12: once the loop has taken None from fetch_token it calls fetch_token no
\* more, its only set_auth call is the set_auth(None) that clears the remote
\* auth, it calls on_auth_change(false) exactly if it was authenticated, and it
\* ends with the flag false and stays ended.
C12_NoTokenEndsLoop ==
    /\ [][authExit = "no_token" =>
              /\ authExit' = authExit
              /\ fetchCalls' = fetchCalls
              /\ sessionAuth' # sessionAuth => (authPc = "clearing" /\ sessionAuth' = NoToken)
              /\ authChangeLog' # authChangeLog =>
                     /\ authPc = "clearing"
                     /\ was_authenticated
                     /\ authChangeLog' = Append(authChangeLog, FALSE)
              /\ authPc = "clearing" => authPc' \in {"clearing", "done"}
              /\ authPc = "done" => authPc' = "done"]_vars
    /\ []((authExit = "no_token" /\ authPc = "done") =>
              /\ sessionAuth = NoToken
              /\ ~is_authenticated
              /\ authChangeLog = IF was_authenticated THEN <<TRUE, FALSE>> ELSE <<>>)
    /\ (authExit = "no_token") ~> (authPc = "done")

\* The second fetch returned None to an authenticated loop, which has ended.
C12_Witness ==
    /\ authExit = "no_token"
    /\ authPc = "done"
    /\ fetchCalls = 2
    /\ was_authenticated
    /\ authChangeLog = <<TRUE, FALSE>>

\* C13: the sleep the loop schedules after a fetch: exp - 60 - now when the
\* expiry decodes and exp - 60 > now, 5 when it decodes and exp - 60 <= now,
\* 300 when it does not decode; 440 for exp = now + 500, 5 for exp = now + 10.
C13_SleepSchedule ==
    authPc = "sleeping" =>
        LET exp == decode_jwt_expiry(token)
        IN  /\ (exp.some /\ exp.val - 60 > now_secs) => sleep_duration = exp.val - 60 - now_secs
            /\ (exp.some /\ exp.val - 60 <= now_secs) => sleep_duration = 5
            /\ ~exp.some => sleep_duration = 300
            /\ (exp.some /\ exp.val = now_secs + 500) => sleep_duration = 440
            /\ (exp.some /\ exp.val = now_secs + 10) => sleep_duration = 5

\* The loop sleeps 440 seconds on a token that expires 500 seconds from now.
C13_Witness ==
    /\ authPc = "sleeping"
    /\ decode_jwt_expiry(token).some
    /\ token.exp = now_secs + 500
    /\ sleep_duration = 440

Converted(events) == [i \in 1..Len(events) |-> FromWebSocketState(events[i])]

\* C14: the callback calls followed by the events still queued are the events
\* the collaborator sent, in order and with repeats; the queue never holds more
\* than its capacity; a call is made only with no earlier call in progress, so
\* at most one is in progress.
C14_RelayInOrder ==
    /\ [](/\ Converted(emitted) = relayCalls \o Converted(relayQueue)
          /\ Len(relayQueue) <= RelayCapacity
          /\ relayRunning <= 1
          /\ relayRunning = 1 <=> relayPc = "calling")
    /\ [][relayCalls' # relayCalls =>
              /\ relayRunning = 0
              /\ relayQueue # <<>>
              /\ relayCalls' = Append(relayCalls, FromWebSocketState(Head(relayQueue)))
              /\ relayQueue' = Tail(relayQueue)]_vars

\* The queue is full behind a call in progress, and the next event to be
\* delivered repeats the one being delivered.
C14_Witness ==
    /\ Len(relayQueue) = RelayCapacity
    /\ relayPc = "calling"
    /\ relayCalls = <<"Connecting">>
    /\ Head(relayQueue) = "ConvexWebSocketState::Connecting"

\* C15: when every caller of connected_client() began after the listener was
\* registered, every connect attempt is started with a registered sender
\* installed, the one its caller read, so the session holds one and every event
\* it emits is in the relay's queue or was handed to the callback.
C15_SinkWired ==
    /\ []((\A c \in Callers : callerPc[c] # "idle" => state_sender[c] # 0) =>
              /\ \A k \in 1..attempts : attemptSink[k] \in 1..state_change_sender
              /\ client # 0 => SessionSink # 0
              /\ Converted(emitted) = relayCalls \o Converted(relayQueue))
    /\ [][attempts' # attempts =>
              /\ Len(attemptSink') = attempts'
              /\ \E c \in Callers : /\ callerPc[c] # "building"
                                    /\ callerPc'[c] = "building"
                                    /\ attemptSink'[attempts'] = state_sender[c]]_vars

\* Registered first; the first attempt failed, the second established the
\* session, and the events it emitted reached the callback.
C15_Witness ==
    /\ state_change_sender = 1
    /\ client = 2
    /\ attemptSink = <<1, 1>>
    /\ Len(emitted) = 2
    /\ relayCalls = Converted(emitted)

\* C16: the result of a returned call has the kind of the collaborator's
\* outcome: a value gives the serialized string, an application error
\* ConvexError with its serialized data, a server fault ServerError with its
\* message, a failure of the collaborator's call, of the connection or of the
\* local task InternalError.
C16_KindPreserved ==
    \A c \in Callers :
        callPc[c] = "returned" =>
            /\ callOutcome[c].tag = "Value" =>
                   callResult[c] = [kind |-> "Ok", text |-> to_string(callOutcome[c].data)]
            /\ callOutcome[c].tag = "ConvexError" =>
                   callResult[c] = [kind |-> "ConvexError", text |-> to_string(callOutcome[c].data)]
            /\ callOutcome[c].tag = "ErrorMessage" =>
                   callResult[c] = [kind |-> "ServerError", text |-> callOutcome[c].message]
            /\ callOutcome[c].tag = "Err" =>
                   callResult[c] = [kind |-> "InternalError", text |-> callOutcome[c].message]
            /\ callOutcome[c].tag = "none" => callResult[c].kind = "InternalError"
            /\ result[c].kind = "err" => callResult[c].kind = "InternalError"

\* A mutation returned the application error of the collaborator.
C16_Witness ==
    \E c \in Callers :
        /\ callPc[c] = "returned"
        /\ callKind[c] = "mutation"
        /\ callOutcome[c].tag = "ConvexError"
        /\ callResult[c].kind = "ConvexError"

\* The argument maps with a value that is not JSON or not a Convex value.
ArgsUnparsable(raw_args) ==
    \E p \in raw_args : p[2] \in {"{", "{\"$integer\":\"?\"}"}

\* C17 as stated: a call of any kind on an established session with an argument
\* that cannot be parsed aborts and returns no typed error.
C17_BadArgsFatal ==
    \A c \in Callers :
        ( /\ callPc[c] \in {"returned", "aborted"}
          /\ result[c].kind = "ok"
          /\ ArgsUnparsable(callArgs[c]) )
        => (callPc[c] = "aborted" /\ callResult[c] = NoCallResult)

\* C17 as amended: on an established session a call with an argument that
\* cannot be parsed never reaches the collaborator; a query aborts and returns
\* no typed error; a mutation or an action returns InternalError.
C17_BadArgsByKind ==
    \A c \in Callers :
        /\ callPc[c] = "invoking" => ~ArgsUnparsable(callArgs[c])
        /\ ( /\ callPc[c] \in {"returned", "aborted"}
             /\ result[c].kind = "ok"
             /\ ArgsUnparsable(callArgs[c]) )
           => IF callKind[c] = "query"
                THEN callPc[c] = "aborted" /\ callResult[c] = NoCallResult
                ELSE /\ callPc[c] = "returned"
                     /\ callResult[c].kind = "InternalError"
                     /\ callOutcome[c] = NoOutcome

\* An action with an argument that is not JSON returned InternalError.
C17_Witness ==
    \E c \in Callers :
        /\ callKind[c] = "action"
        /\ <<"a", "{">> \in callArgs[c]
        /\ result[c].kind = "ok"
        /\ callPc[c] = "returned"
        /\ callResult[c].kind = "InternalError"

\* C18 as stated: when the task calls the subscriber for an update, the future
\* of the callback for the update before it has completed; at most one callback
\* of a subscription is in progress.
C18_OneAtATime ==
    \A s \in Subs : cbRunning[s] <= 1

\* C19 as stated: after cancel() has sent the signal the task terminates.
C19_CancelTerminates ==
    \A s \in Subs : (subChan[s] = "sent") ~> (subPc[s] = "terminated")

\* C20 as stated: after dispose() has sent the signal the loop calls fetch_token no more.
C20_NoFetchAfterDispose ==
    fetchCallsAtDispose >= 0 => fetchCalls = fetchCallsAtDispose

\* C21 as stated: every sleep the loop schedules after a successful fetch is
\* at least the minimum refresh interval of 5 seconds, whatever the token.
C21_SleepAtLeastMin ==
    authPc = "sleeping" => sleep_duration >= MIN_REFRESH_INTERVAL_SECS

\* The number of on_auth_change calls with the argument b.
AuthChangeCalls(b) == Cardinality({i \in 1..Len(authChangeLog) : authChangeLog[i] = b})

\* C22: over the life of one refresh loop on_auth_change is called with true at
\* most once, with false at most once, and with false only after a call with
\* true; a token applied when the loop was already authenticated (a later
\* refresh) causes no call.
C22_AuthChangeOnce ==
    /\ [](/\ AuthChangeCalls(TRUE) <= 1
          /\ AuthChangeCalls(FALSE) <= 1
          /\ \A i \in 1..Len(authChangeLog) :
                authChangeLog[i] = FALSE => \E j \in 1..(i - 1) : authChangeLog[j] = TRUE)
    /\ [][(authPc = "applying" /\ was_authenticated) => authChangeLog' = authChangeLog]_vars

\* The loop has applied a second token after the one call with true.
C22_Witness ==
    /\ fetchCalls = 2
    /\ authPc = "sleeping"
    /\ fetchResult.state = "Some"
    /\ sessionAuth = token
    /\ authChangeLog = <<TRUE>>

\* C23: every update the task takes from the stream causes exactly one
\* subscriber call, of the matching kind: on_update for a value, on_error
\* without a payload for an error message, on_error with a payload for a
\* structured error; the task is Active afterwards, also after an error.
C23_OneCallbackPerUpdate ==
    [][\A s \in Subs :
          Len(stream'[s]) < Len(stream[s]) =>
              /\ stream'[s] = Tail(stream[s])
              /\ Len(delivered'[s]) = Len(delivered[s]) + 1
              /\ \A i \in 1..Len(delivered[s]) : delivered'[s][i] = delivered[s][i]
              /\ LET call == delivered'[s][Len(delivered'[s])]
                     update == Head(stream[s])
                 IN  /\ update = "Value" => call.cb = "on_update" /\ call.value = "some"
                     /\ update = "ErrorMessage" => call.cb = "on_error" /\ call.value = "none"
                     /\ update = "ConvexError" => call.cb = "on_error" /\ call.value = "some"
              /\ subPc[s] = "active"
              /\ subPc'[s] = "active"]_vars

\* After an error message and a structured error were delivered the task is
\* still Active.
C23_Witness ==
    /\ subPc[1] = "active"
    /\ delivered[1] = <<[cb |-> "on_error", value |-> "none"],
                        [cb |-> "on_error", value |-> "some"]>>
    /\ stream[1] = <<>>

\* No subscriber call of subscription s is made in the step.
NoCall(s) == delivered'[s] = delivered[s] /\ cbRunning'[s] <= cbRunning[s]

\* C24: when the stream of an Active subscription has ended (next() yields
\* None) the task becomes Terminated, by the step that finds the end and not by
\* the cancellation branch; that step calls neither on_update nor on_error, and
\* no subscriber call of the subscription is made afterwards.
C24_SilentEnd ==
    /\ [][\A s \in Subs :
             /\ (exit[s] = "none" /\ exit'[s] = "end") =>
                    /\ subPc[s] = "active" /\ streamEnded[s] /\ stream[s] = <<>>
                    /\ subPc'[s] = "terminated"
                    /\ NoCall(s)
             /\ (subPc[s] = "active" /\ streamEnded[s] /\ stream[s] = <<>>
                   /\ subPc'[s] # "active") => exit'[s] = "end"
             /\ exit[s] = "end" =>
                    /\ NoCall(s)
                    /\ subPc'[s] = "terminated"
                    /\ exit'[s] = "end"]_vars
    /\ \A s \in Subs :
          (subPc[s] = "active" /\ streamEnded[s] /\ stream[s] = <<>>)
              ~> (subPc[s] = "terminated" /\ exit[s] = "end")

\* The stream ended after an update was delivered and while the cancellation
\* signal was pending; the task ended by the end of the stream.
C24_Witness ==
    /\ subPc[1] = "terminated"
    /\ exit[1] = "end"
    /\ streamEnded[1]
    /\ delivered[1] # <<>>
    /\ subChan[1] = "sent"

====
